---- MODULE Spec2Model ----
(***************************************************************************)
(* LettuceDetect web API: the FastAPI server of src/api/main.py (two POST  *)
(* routes in front of one shared HallucinationDetector, serialised by an   *)
(* asyncio.Lock) together with the blocking and non-blocking clients of    *)
(* src/api/client.py.                                                      *)
(***************************************************************************)
EXTENDS Integers, Sequences, FiniteSets, TLC

\* Number of client calls that are issued against the one server process.
NReq == 2

Reqs == 1..NReq

(***************************************************************************)
(* Schema layer and inputs                                                 *)
(***************************************************************************)

\* Answers are sequences of characters; every call uses one of them.
Answers == {<<"x", "y">>, <<"p", "q">>}

NoAnswer == <<>>

\* DetectionRequest(contexts=..., question=..., answer=...): three fields.
DetectionRequest(contexts, question, answer) ==
  [contexts |-> contexts, question |-> question, answer |-> answer]

ValidRequests == {DetectionRequest(<<"ctx">>, "q", a) : a \in Answers}

\* Another BaseModel handed to the request wrapper: it has no `question`.
OtherModels == {[contexts |-> <<"ctx">>, answer |-> a] : a \in {<<"x", "y">>}}

\* dict(request): the field/value pairs of the model, sent as the JSON body.
DictOf(request) == [f \in DOMAIN request |-> request[f]]

\* A DetectionRequest whose question has a default value.
ParseDetectionRequestDefault(body) ==
  IF {"contexts", "answer"} \subseteq DOMAIN body
  THEN [ok |-> TRUE,
        request |-> DetectionRequest(
                      body.contexts,
                      IF "question" \in DOMAIN body THEN body.question ELSE "",
                      body.answer)]
  ELSE [ok |-> FALSE]

\* The request parameter of both handlers: the JSON body is validated
\* against DetectionRequest, whose three fields are all required.
ParseDetectionRequest(body) ==
  IF {"contexts", "question", "answer"} \subseteq DOMAIN body
  THEN [ok |-> TRUE,
        request |-> DetectionRequest(body.contexts, body.question, body.answer)]
  ELSE [ok |-> FALSE]

(***************************************************************************)
(* URLs                                                                    *)
(***************************************************************************)

TOKEN_ROUTE == "/lettucedetect/token"
SPANS_ROUTE == "/lettucedetect/spans"

TOKEN_ENDPOINT == "/v1/lettucedetect/token"
SPANS_ENDPOINT == "/v1/lettucedetect/spans"

SERVER_URL == [host |-> "http://127.0.0.1:8000", path |-> ""]

\* urllib.parse.urljoin with a second argument that starts with "/": the
\* path of the base is replaced by it.
urljoin(base_url, endpoint) == [host |-> base_url.host, path |-> endpoint]

(***************************************************************************)
(* Response shapes                                                         *)
(***************************************************************************)

TokenDetectionResponse == "TokenDetectionResponse"
SpanDetectionResponse == "SpanDetectionResponse"

\* The fields of TokenDetectionItem and of SpanDetectionItem.
ItemFields(response_model) ==
  IF response_model = TokenDetectionResponse
  THEN {"token", "hallucination_score"}
  ELSE {"start", "end", "text", "hallucination_score"}

\* A value validates against a response model when it has a `predictions`
\* list whose items have every field of the item type.
Validates(response_model, value) ==
  /\ "predictions" \in DOMAIN value
  /\ \A i \in DOMAIN value.predictions :
       ItemFields(response_model) \subseteq DOMAIN value.predictions[i]

\* The validated model instance: unknown fields are ignored on read.
Validated(response_model, value) ==
  [predictions |->
     [i \in DOMAIN value.predictions |->
        [f \in ItemFields(response_model) |-> value.predictions[i][f]]]]

(***************************************************************************)
(* The inference resource (lettucedetect.models.inference)                 *)
(***************************************************************************)

NoCause == [type |-> "none"]

\* What the resource can raise from predict.
ResourceErrors == {[type |-> "RuntimeError", cause |-> NoCause]}

RawToken(answer, i) == [token |-> <<answer[i]>>, prob |-> i]

RawSpan(answer, i) ==
  [start |-> i - 1, end |-> i, text |-> SubSeq(answer, i, i), confidence |-> i]

\* Raw predictions predict can return for an answer: nothing found, one
\* item per position, or a malformed item without its score.
RawOutputs(answer, output_format) ==
  IF output_format = "tokens"
  THEN {<<>>,
        [i \in 1..Len(answer) |-> RawToken(answer, i)],
        <<[token |-> <<answer[1]>>]>>}
  ELSE {<<>>,
        [i \in 1..Len(answer) |-> RawSpan(answer, i)],
        <<[start |-> 0, end |-> 1, text |-> SubSeq(answer, 1, 1)]>>}

\* The resource is not safe for concurrent use: it works on the arguments
\* of the call that entered it last.
Idle == [answer |-> NoAnswer, output_format |-> "none"]

PredictResults(work) ==
  {[kind |-> "raise", exc |-> e] : e \in ResourceErrors}
  \cup (IF work = Idle THEN {}
        ELSE {[kind |-> "return", value |-> raw] :
                raw \in RawOutputs(work.answer, work.output_format)})

(***************************************************************************)
(* Server: routes, handlers and the framework around them                  *)
(***************************************************************************)

\* @app.post(...): the handler registered for a path, if any.
Route(path) ==
  IF path = TOKEN_ROUTE THEN "run_token_detection"
  ELSE IF path = SPANS_ROUTE THEN "run_span_detection"
  ELSE "none"

\* The output_format each handler passes to run_detector_safe.
OutputFormat(handler) ==
  IF handler = "run_token_detection" THEN "tokens" ELSE "spans"

\* The response_model each route declares.
RouteResponseModel(handler) ==
  IF handler = "run_token_detection"
  THEN TokenDetectionResponse ELSE SpanDetectionResponse

HasKeys(preds, keys) == \A i \in DOMAIN preds : keys \subseteq DOMAIN preds[i]

\* A conversion that emits the items last to first.
TokenConvertReversed(preds) ==
  [i \in DOMAIN preds |->
     [token |-> preds[Len(preds) + 1 - i].token,
      hallucination_score |-> preds[Len(preds) + 1 - i].prob]]

\* run_token_detection, after run_detector_safe returned preds.
TokenConvert(preds) ==
  [i \in DOMAIN preds |->
     [token |-> preds[i].token, hallucination_score |-> preds[i].prob]]

\* A conversion that writes each offset into the other's field.
SpanConvertSwapped(preds) ==
  [i \in DOMAIN preds |->
     [start |-> preds[i].end,
      end |-> preds[i].start,
      text |-> preds[i].text,
      hallucination_score |-> preds[i].confidence]]

\* A conversion that keeps only the spans above a confidence threshold.
SpanConvertFiltered(preds) ==
  LET kept == SelectSeq(preds, LAMBDA p : p.confidence > 1) IN
  [i \in DOMAIN kept |->
     [start |-> kept[i].start,
      end |-> kept[i].end,
      text |-> kept[i].text,
      hallucination_score |-> kept[i].confidence]]

\* run_span_detection, after run_detector_safe returned preds.
SpanConvert(preds) ==
  [i \in DOMAIN preds |->
     [start |-> preds[i].start,
      end |-> preds[i].end,
      text |-> preds[i].text,
      hallucination_score |-> preds[i].confidence]]

KeyError == [type |-> "KeyError", cause |-> NoCause]

\* A gateway that replaces the failure by a generic one.
SurfacedErrorGeneric(exc) == [type |-> "Exception", cause |-> NoCause]

\* run_detector_safe has no except clause: what predict raises leaves it
\* as it is, and what predict returns is returned as preds.
SurfacedError(exc) == exc

GatewayResult(thread_result) ==
  IF thread_result.kind = "raise"
  THEN [kind |-> "raise", exc |-> SurfacedError(thread_result.exc)]
  ELSE [kind |-> "return", value |-> thread_result.value]

\* The handler body: the gateway's exception passes through, a missing key
\* in a raw item raises KeyError, otherwise the dict with the converted list.
HandlerResult(handler, gw_result) ==
  IF gw_result.kind = "raise" THEN gw_result
  ELSE IF handler = "run_token_detection"
  THEN IF HasKeys(gw_result.value, {"token", "prob"})
       THEN [kind |-> "return",
             value |-> [predictions |-> TokenConvert(gw_result.value)]]
       ELSE [kind |-> "raise", exc |-> KeyError]
  ELSE IF HasKeys(gw_result.value, {"start", "end", "text", "confidence"})
       THEN [kind |-> "return",
             value |-> [predictions |-> SpanConvert(gw_result.value)]]
       ELSE [kind |-> "raise", exc |-> KeyError]

NotFoundResponse ==
  [status |-> 404, body |-> [detail |-> "Not Found"]]

ValidationErrorResponse ==
  [status |-> 422, body |-> [detail |-> "ValidationError"]]

ServerErrorResponse ==
  [status |-> 500, body |-> [text |-> "Internal Server Error"]]

\* A server that answers a failed handler with an empty success body.
ResponseOfSwallowed(handler, handler_result) ==
  IF handler_result.kind = "raise"
  THEN [status |-> 200, body |-> [predictions |-> <<>>]]
  ELSE [status |-> 200,
        body |-> Validated(RouteResponseModel(handler), handler_result.value)]

\* The framework turns the handler's outcome into the HTTP response: an
\* exception is a 500 with a generic body, a returned dict is validated
\* against the route's response_model and sent with status 200.
ResponseOf(handler, handler_result) ==
  IF handler_result.kind = "raise" THEN ServerErrorResponse
  ELSE IF Validates(RouteResponseModel(handler), handler_result.value)
  THEN [status |-> 200,
        body |-> Validated(RouteResponseModel(handler), handler_result.value)]
  ELSE ServerErrorResponse

(***************************************************************************)
(* asyncio.Lock                                                            *)
(***************************************************************************)

\* A gate that lets every caller through.
CanAcquireUnguarded(is_locked, lock_waiters) == TRUE

\* Lock.acquire takes the lock at once when it is free and nobody waits.
CanAcquire(is_locked, lock_waiters) == ~is_locked /\ lock_waiters = <<>>

\* A release that wakes nobody.
WakeUpNobody(lock_waiters, done_futures) == done_futures

\* Lock.release wakes the first waiter: its future is set done.
WakeUpFirst(lock_waiters, done_futures) ==
  IF lock_waiters = <<>> THEN done_futures
  ELSE done_futures \cup {Head(lock_waiters)}

Without(seq, r) == SelectSeq(seq, LAMBDA x : x # r)

(***************************************************************************)
(* Client                                                                  *)
(***************************************************************************)

\* response.raise_for_status(): anything but 2xx raises.
IsSuccess(status) == status >= 200 /\ status <= 299

\* A wrapper that hands back the decoded body of a success as it is.
httpx_request_wrapper_unvalidated(response, response_model) ==
  IF ~IsSuccess(response.status)
  THEN [kind |-> "HTTPError", status |-> response.status, body |-> response.body]
  ELSE [kind |-> "ok", type |-> response_model, value |-> response.body]

\* _httpx_request_wrapper, after the response arrived.
httpx_request_wrapper(response, response_model) ==
  IF ~IsSuccess(response.status)
  THEN [kind |-> "HTTPError", status |-> response.status, body |-> response.body]
  ELSE IF Validates(response_model, response.body)
  THEN [kind |-> "ok", type |-> response_model,
        value |-> Validated(response_model, response.body)]
  ELSE [kind |-> "ValidationError"]

\* A non-blocking wrapper that parses the body without looking at the status.
httpx_request_wrapper_async_unchecked(response, response_model) ==
  IF Validates(response_model, response.body)
  THEN [kind |-> "ok", type |-> response_model,
        value |-> Validated(response_model, response.body)]
  ELSE [kind |-> "ValidationError"]

\* _httpx_request_wrapper_async, after the response arrived.
httpx_request_wrapper_async(response, response_model) ==
  IF ~IsSuccess(response.status)
  THEN [kind |-> "HTTPError", status |-> response.status, body |-> response.body]
  ELSE IF Validates(response_model, response.body)
  THEN [kind |-> "ok", type |-> response_model,
        value |-> Validated(response_model, response.body)]
  ELSE [kind |-> "ValidationError"]

\* LettuceClient / LettuceClientAsync .detect_token and .detect_spans: the
\* request, the URL and the response model handed to the wrapper.
DetectCall(variant, op, contexts, question, answer) ==
  [variant |-> variant,
   via |-> op,
   url |-> urljoin(SERVER_URL,
                   IF op = "detect_token" THEN TOKEN_ENDPOINT ELSE SPANS_ENDPOINT),
   json |-> DictOf(DetectionRequest(contexts, question, answer)),
   response_model |->
     IF op = "detect_token" THEN TokenDetectionResponse ELSE SpanDetectionResponse]

\* A direct use of the wrapper with a URL and a request model of the
\* caller's choosing.
WrapperCall(variant, url, request, response_model) ==
  [variant |-> variant,
   via |-> "wrapper",
   url |-> url,
   json |-> DictOf(request),
   response_model |-> response_model]

\* The odd calls are made with LettuceClient, the even ones with
\* LettuceClientAsync; the server cannot tell them apart.
VariantOf(r) == IF r % 2 = 1 THEN "sync" ELSE "async"

ServedUrls == {urljoin(SERVER_URL, p) : p \in {TOKEN_ROUTE, SPANS_ROUTE}}

ClientCalls(variant) ==
  {DetectCall(variant, op, r.contexts, r.question, r.answer) :
     op \in {"detect_token", "detect_spans"}, r \in ValidRequests}
  \cup
  {WrapperCall(variant, u, r, RouteResponseModel(Route(u.path))) :
     u \in ServedUrls, r \in ValidRequests \cup OtherModels}

(***************************************************************************)
(* State                                                                   *)
(***************************************************************************)

VARIABLES
  phase,      \* "boot" until the lifespan hook has run, then "serving"
  detector,   \* the module global: "None" or "HallucinationDetector"
  det_work,   \* the arguments the resource is working on
  locked,     \* detector_lock._locked
  waiters,    \* detector_lock._waiters, in arrival order
  woken,      \* the waiters whose future release() has set done
  pc,         \* where each client call is
  call,       \* what each client call sends
  result,     \* what the worker thread's predict gave each request
  gw,         \* what run_detector_safe gave each request
  resp,       \* the HTTP response of each request
  out,        \* what the client call returned or raised
  observed,   \* per request, the predict calls the resource saw for it
  waited,     \* whether the request had to queue for the lock
  nsent,      \* the network calls each client call has made
  gone        \* the client calls that gave up and closed their connection

vars == <<phase, detector, det_work, locked, waiters, woken, pc, call,
          result, gw, resp, out, observed, waited, nsent, gone>>

NoCall == [via |-> "none"]
NoResult == [kind |-> "none"]
NoResponse == [status |-> 0]

Init ==
  /\ phase = "boot"
  /\ detector = "None"
  /\ det_work = Idle
  /\ locked = FALSE
  /\ waiters = <<>>
  /\ woken = {}
  /\ pc = [r \in Reqs |-> "idle"]
  /\ call = [r \in Reqs |-> NoCall]
  /\ result = [r \in Reqs |-> NoResult]
  /\ gw = [r \in Reqs |-> NoResult]
  /\ resp = [r \in Reqs |-> NoResponse]
  /\ out = [r \in Reqs |-> NoResult]
  /\ observed = [r \in Reqs |-> <<>>]
  /\ waited = [r \in Reqs |-> FALSE]
  /\ nsent = [r \in Reqs |-> 0]
  /\ gone = {}

\* A hook that binds the new object to a local name: the module global
\* keeps its value.
ConstructDetectorLocal(global) == global

\* init_detector: `global detector`, then the HallucinationDetector built
\* from the settings is bound to it.
ConstructDetector(global) == "HallucinationDetector"

\* The lifespan hook runs init_detector, and only then does the server
\* accept requests.
Startup ==
  /\ phase = "boot"
  /\ detector' = ConstructDetector(detector)
  /\ phase' = "serving"
  /\ UNCHANGED <<gone, det_work, locked, waiters, woken, pc, call, result,
                 gw, resp, out, observed, waited, nsent>>

\* A client call builds its request and posts it (the clients are started
\* once the server is up).
Send(r) ==
  /\ phase = "serving"
  /\ pc[r] = "idle"
  /\ \E c \in ClientCalls(VariantOf(r)) : call' = [call EXCEPT ![r] = c]
  /\ pc' = [pc EXCEPT ![r] = "sent"]
  /\ nsent' = [nsent EXCEPT ![r] = @ + 1]
  /\ UNCHANGED <<gone, phase, detector, det_work, locked, waiters, woken, result,
                 gw, resp, out, observed, waited>>

\* The arguments of detector.predict as run_detector_safe passes them.
PredictArgs(r, handler) ==
  LET request == ParseDetectionRequest(call[r].json).request IN
  [context |-> request.contexts,
   question |-> request.question,
   answer |-> request.answer,
   output_format |-> OutputFormat(handler)]

\* run_in_threadpool(detector.predict, ...): the worker thread enters
\* predict with the request's arguments.
EnterPredict(r, handler) ==
  /\ det_work' = [answer |-> PredictArgs(r, handler).answer,
                  output_format |-> PredictArgs(r, handler).output_format]
  /\ observed' = [observed EXCEPT ![r] = Append(@, PredictArgs(r, handler))]
  /\ pc' = [pc EXCEPT ![r] = "predicting"]

\* A gateway that calls predict on the event loop itself: nothing else
\* runs until the call is over.
EventLoopBlocked(running) == running = {}

\* predict runs in a worker thread (run_in_threadpool) and the coroutine
\* awaits it, so the event loop is free to take requests whichever calls
\* are running.
EventLoopFree(running) == TRUE

\* The server takes a request off the wire: routing, validation of the
\* body, then the handler up to its first suspension in run_detector_safe.
Handle(r) ==
  /\ phase = "serving"
  /\ pc[r] = "sent"
  /\ EventLoopFree({q \in Reqs : pc[q] = "predicting"})
  /\ LET handler == Route(call[r].url.path) IN
     IF handler = "none"
     THEN /\ resp' = [resp EXCEPT ![r] = NotFoundResponse]
          /\ pc' = [pc EXCEPT ![r] = "responded"]
          /\ UNCHANGED <<det_work, locked, waiters, observed, waited>>
     ELSE IF ~ParseDetectionRequest(call[r].json).ok
     THEN /\ resp' = [resp EXCEPT ![r] = ValidationErrorResponse]
          /\ pc' = [pc EXCEPT ![r] = "responded"]
          /\ UNCHANGED <<det_work, locked, waiters, observed, waited>>
     ELSE IF CanAcquire(locked, waiters)
     THEN /\ locked' = TRUE
          /\ EnterPredict(r, handler)
          /\ UNCHANGED <<resp, waiters, waited>>
     ELSE /\ waiters' = Append(waiters, r)
          /\ waited' = [waited EXCEPT ![r] = TRUE]
          /\ pc' = [pc EXCEPT ![r] = "waiting"]
          /\ UNCHANGED <<resp, det_work, locked, observed>>
  /\ UNCHANGED <<gone, phase, detector, woken, call, result, gw, out, nsent>>

\* A waiter whose future is done resumes inside Lock.acquire: it leaves
\* the queue, takes the lock and enters predict.
WakeAcquire(r) ==
  /\ pc[r] = "waiting"
  /\ r \in woken
  /\ waiters' = Without(waiters, r)
  /\ woken' = woken \ {r}
  /\ locked' = TRUE
  /\ EnterPredict(r, Route(call[r].url.path))
  /\ UNCHANGED <<gone, phase, detector, call, result, gw, resp, out, waited, nsent>>

\* detector.predict ends in the worker thread, returning or raising.
PredictEnd(r) ==
  /\ pc[r] = "predicting"
  /\ \E o \in PredictResults(det_work) : result' = [result EXCEPT ![r] = o]
  /\ det_work' = Idle
  /\ pc' = [pc EXCEPT ![r] = "thread_done"]
  /\ UNCHANGED <<gone, phase, detector, locked, waiters, woken, call, gw, resp,
                 out, observed, waited, nsent>>

\* A gateway that calls predict a second time when the first call raised.
ShouldRetryOnRaise(thread_result, ncalls) ==
  thread_result.kind = "raise" /\ ncalls < 2

\* run_detector_safe calls predict once: there is no loop around the call
\* and no except clause, whatever the outcome and however many calls were
\* made.
ShouldRetry(thread_result, ncalls) == FALSE

\* A gateway that releases the lock after the call, on the normal path
\* only.
ReleasesOnReturnOnly(thread_result) == thread_result.kind = "return"

\* `async with detector_lock` releases the lock on every way out of its
\* body, by return or by exception.
ReleasesOnExit(thread_result) == TRUE

\* The coroutine resumes with the thread's outcome: the lock is released on
\* the way out of `async with`, the handler converts the predictions and
\* the framework sends the response.
Resume(r) ==
  /\ pc[r] = "thread_done"
  /\ LET handler == Route(call[r].url.path) IN
     IF ShouldRetry(result[r], Len(observed[r]))
     THEN /\ EnterPredict(r, handler)
          /\ UNCHANGED <<locked, woken, gw, resp>>
     ELSE /\ locked' = IF ReleasesOnExit(result[r]) THEN FALSE ELSE locked
          /\ woken' = IF ReleasesOnExit(result[r])
                      THEN WakeUpFirst(waiters, woken) ELSE woken
          /\ gw' = [gw EXCEPT ![r] = GatewayResult(result[r])]
          /\ resp' = [resp EXCEPT ![r] =
                        ResponseOf(handler,
                                   HandlerResult(handler, GatewayResult(result[r])))]
          /\ pc' = [pc EXCEPT ![r] = "responded"]
          /\ UNCHANGED <<det_work, observed>>
  /\ UNCHANGED <<gone, phase, detector, waiters, call, result, out, waited, nsent>>

\* A wrapper that sends the request once more after a server error.
ClientShouldRetryOnServerError(response, attempts) ==
  response.status >= 500 /\ attempts < 2

\* Both wrappers make one request and then only look at its response:
\* nothing is sent again, whatever came back.
ClientShouldRetry(response, attempts) == FALSE

\* The client gets the response: raise_for_status, then validation.
Receive(r) ==
  /\ pc[r] = "responded"
  /\ r \notin gone
  /\ IF ClientShouldRetry(resp[r], nsent[r])
     THEN /\ pc' = [pc EXCEPT ![r] = "sent"]
          /\ nsent' = [nsent EXCEPT ![r] = @ + 1]
          /\ resp' = [resp EXCEPT ![r] = NoResponse]
          /\ UNCHANGED out
     ELSE /\ out' = [out EXCEPT ![r] =
                       IF call[r].variant = "sync"
                       THEN httpx_request_wrapper(resp[r], call[r].response_model)
                       ELSE httpx_request_wrapper_async(resp[r],
                                                        call[r].response_model)]
          /\ pc' = [pc EXCEPT ![r] = "closed"]
          /\ UNCHANGED <<resp, nsent>>
  /\ UNCHANGED <<gone, phase, detector, det_work, locked, waiters, woken, call,
                 result, gw, observed, waited>>

Next ==
  \/ Startup
  \/ \E r \in Reqs : Send(r)
  \/ \E r \in Reqs : Handle(r)
  \/ \E r \in Reqs : WakeAcquire(r)
  \/ \E r \in Reqs : PredictEnd(r)
  \/ \E r \in Reqs : Resume(r)
  \/ \E r \in Reqs : Receive(r)

Spec == Init /\ [][Next]_vars

\* A server that cancels the handler of a caller that went away while the
\* handler waits for the lock.
CancelsQueued(position) == position = "waiting"

\* A server that cancels the handler of a caller that went away during
\* predict, and does not wait for the worker thread.
CancelsRunning(position) == position = "predicting"

\* A closed connection cancels nothing: the handler's task is not
\* cancelled, wherever it stands, and neither the handlers nor
\* run_detector_safe look at the connection.
CancelsHandler(position) == FALSE

\* The caller of a request that is queued or inside predict gives up and
\* closes the connection. Were the handler cancelled, a queued one would
\* leave the queue inside Lock.acquire and a running one would leave
\* `async with`, which releases the lock.
Disconnect(r) ==
  /\ pc[r] \in {"waiting", "predicting"}
  /\ r \notin gone
  /\ gone' = gone \cup {r}
  /\ out' = [out EXCEPT ![r] = [kind |-> "Disconnected", at |-> pc[r]]]
  /\ IF ~CancelsHandler(pc[r])
     THEN UNCHANGED <<pc, locked, waiters, woken>>
     ELSE IF pc[r] = "waiting"
     THEN /\ waiters' = Without(waiters, r)
          /\ woken' = IF locked THEN woken \ {r}
                      ELSE WakeUpFirst(Without(waiters, r), woken \ {r})
          /\ pc' = [pc EXCEPT ![r] = "cancelled"]
          /\ UNCHANGED locked
     ELSE /\ locked' = FALSE
          /\ woken' = WakeUpFirst(waiters, woken)
          /\ UNCHANGED <<pc, waiters>>
  /\ UNCHANGED <<phase, detector, det_work, call, result, gw, resp,
                 observed, waited, nsent>>

CancelNext ==
  \/ Next
  \/ \E r \in Reqs : Disconnect(r)

\* The server with callers that may go away.
CancelSpec == Init /\ [][CancelNext]_vars

\* The event loop runs every task that is ready (a received request, a
\* woken waiter, a coroutine whose thread has finished), and every predict
\* call terminates. Clients are under no obligation to send.
FairSpec ==
  /\ Spec
  /\ \A r \in Reqs :
       /\ WF_vars(Handle(r))
       /\ WF_vars(WakeAcquire(r))
       /\ WF_vars(PredictEnd(r))
       /\ WF_vars(Resume(r))

\* Response values of the two shapes, the empty one included.
TokenResponses ==
  {[predictions |-> <<>>],
   [predictions |-> <<[token |-> <<"x">>, hallucination_score |-> 1],
                      [token |-> <<"y">>, hallucination_score |-> 2]>>]}

SpanResponses ==
  {[predictions |-> <<>>],
   [predictions |->
      <<[start |-> 0, end |-> 1, text |-> <<"x">>, hallucination_score |-> 1],
        [start |-> 1, end |-> 2, text |-> <<"y">>, hallucination_score |-> 2]>>]}

CancelFairSpec ==
  /\ CancelSpec
  /\ \A r \in Reqs :
       /\ WF_vars(Handle(r))
       /\ WF_vars(WakeAcquire(r))
       /\ WF_vars(PredictEnd(r))
       /\ WF_vars(Resume(r))

(***************************************************************************)
(* The wire form of a response                                             *)
(***************************************************************************)

\* The declared type of an item field.
FieldType(field) ==
  IF field \in {"token", "text"} THEN "str"
  ELSE IF field \in {"start", "end"} THEN "int"
  ELSE "float"

\* The JSON value written for a field value of a declared type.
JsonOf(type, v) ==
  IF type = "str" THEN [t |-> "string", v |-> v] ELSE [t |-> "number", v |-> v]

\* A serializer that writes the items last to first.
SerializeReversed(response_model, value) ==
  [predictions |->
     [i \in DOMAIN value.predictions |->
        [f \in ItemFields(response_model) |->
           JsonOf(FieldType(f),
                  value.predictions[Len(value.predictions) + 1 - i][f])]]]

\* The JSON document written for a response: an object with the list of
\* items under `predictions`, each an object of its declared fields.
Serialize(response_model, value) ==
  [predictions |->
     [i \in DOMAIN value.predictions |->
        [f \in ItemFields(response_model) |->
           JsonOf(FieldType(f), value.predictions[i][f])]]]

\* Whether a JSON document parses as a response of the model.
Parses(response_model, json) ==
  /\ "predictions" \in DOMAIN json
  /\ \A i \in DOMAIN json.predictions :
       /\ ItemFields(response_model) \subseteq DOMAIN json.predictions[i]
       /\ \A f \in ItemFields(response_model) :
            json.predictions[i][f].t =
              (IF FieldType(f) = "str" THEN "string" ELSE "number")

\* model_validate_json: the response read back from a JSON document.
Deserialize(response_model, json) ==
  IF Parses(response_model, json)
  THEN [ok |-> TRUE,
        value |-> [predictions |->
                     [i \in DOMAIN json.predictions |->
                        [f \in ItemFields(response_model) |->
                           json.predictions[i][f].v]]]]
  ELSE [ok |-> FALSE]

\* The response values of a model.
ResponsesOf(response_model) ==
  IF response_model = TokenDetectionResponse THEN TokenResponses ELSE SpanResponses

(***************************************************************************)
(* The clients against any HTTP server                                     *)
(***************************************************************************)

\* The calls made through the methods of LettuceClient/LettuceClientAsync.
MethodCalls(variant) ==
  {DetectCall(variant, op, r.contexts, r.question, r.answer) :
     op \in {"detect_token", "detect_spans"}, r \in ValidRequests}

\* What a server may answer: a success with a body of either shape, a
\* success whose body is no response at all or has an item without its
\* score, a redirect, a client error, a server error.
ServerReplies ==
  {[status |-> 200, body |-> b] : b \in TokenResponses \cup SpanResponses}
  \cup {[status |-> 200, body |-> [detail |-> "ok"]],
        [status |-> 200, body |-> [predictions |-> <<[token |-> <<"x">>]>>]],
        [status |-> 302, body |-> [detail |-> "Found"]],
        NotFoundResponse,
        ServerErrorResponse}

\* A client method builds its request and posts it.
ClientSend(r) ==
  /\ pc[r] = "idle"
  /\ \E c \in MethodCalls(VariantOf(r)) : call' = [call EXCEPT ![r] = c]
  /\ pc' = [pc EXCEPT ![r] = "sent"]
  /\ nsent' = [nsent EXCEPT ![r] = @ + 1]
  /\ UNCHANGED <<gone, phase, detector, det_work, locked, waiters, woken, result,
                 gw, resp, out, observed, waited>>

\* The server at the other end answers.
Reply(r) ==
  /\ pc[r] = "sent"
  /\ \E reply \in ServerReplies : resp' = [resp EXCEPT ![r] = reply]
  /\ pc' = [pc EXCEPT ![r] = "responded"]
  /\ UNCHANGED <<gone, phase, detector, det_work, locked, waiters, woken, call,
                 result, gw, out, observed, waited, nsent>>

ClientNext ==
  \/ \E r \in Reqs : ClientSend(r)
  \/ \E r \in Reqs : Reply(r)
  \/ \E r \in Reqs : Receive(r)

ClientSpec == Init /\ [][ClientNext]_vars

(***************************************************************************)
(* Properties                                                              *)
(***************************************************************************)

Handler(r) == Route(call[r].url.path)

\* The requests that are inside detector.predict.
InPredict == {r \in Reqs : pc[r] = "predicting"}

\* The requests the server has answered.
Answered(r) == pc[r] \in {"responded", "closed"}

\* The requests that are routed to a handler and pass validation.
PassesValidation(r) ==
  /\ call[r] # NoCall
  /\ Handler(r) # "none"
  /\ ParseDetectionRequest(call[r].json).ok

\* C1: at most one request is inside detector.predict at any time, token
\* and span requests together, and whoever is inside holds the lock.
C1_MutualExclusion ==
  /\ Cardinality(InPredict) <= 1
  /\ InPredict # {} => locked

\* C1 witness: a token request is inside predict while a span request,
\* which arrived meanwhile, queues for the lock.
C1_Witness ==
  \E r1, r2 \in Reqs :
    /\ pc[r1] = "predicting" /\ Handler(r1) = "run_token_detection"
    /\ pc[r2] = "waiting" /\ Handler(r2) = "run_span_detection"

\* The arguments of the request's own predict call.
OwnWork(r) ==
  [answer |-> call[r].json.answer, output_format |-> OutputFormat(Handler(r))]

\* C2: every response is built from what the resource returned for the
\* request's own arguments: the thread's result is one predict can give for
\* them, and a success body has one item per raw item of that result, each
\* carrying that raw item's text.
C2_OwnPredictions ==
  \A r \in Reqs :
    (Answered(r) /\ PassesValidation(r)) =>
      /\ result[r] \in PredictResults(OwnWork(r))
      /\ resp[r].status = 200 =>
           /\ result[r].kind = "return"
           /\ Len(resp[r].body.predictions) = Len(result[r].value)
           /\ \A i \in DOMAIN result[r].value :
                IF Handler(r) = "run_token_detection"
                THEN resp[r].body.predictions[i].token = result[r].value[i].token
                ELSE resp[r].body.predictions[i].text = result[r].value[i].text

\* C2 witness: two requests with different answers were in the server at
\* the same time (one queued behind the other) and both got a success
\* response with predictions.
C2_Witness ==
  \E r1, r2 \in Reqs :
    /\ call[r1] # NoCall /\ call[r2] # NoCall
    /\ PassesValidation(r1) /\ PassesValidation(r2)
    /\ call[r1].json.answer # call[r2].json.answer
    /\ waited[r2]
    /\ Answered(r1) /\ Answered(r2)
    /\ resp[r1].status = 200 /\ resp[r2].status = 200
    /\ Len(resp[r1].body.predictions) > 0
    /\ Len(resp[r2].body.predictions) > 0

\* C3: a request that passed validation and was answered caused exactly
\* one predict call, whether the call returned or raised; a request still
\* in the server has caused at most one.
C3_ExactlyOneCall ==
  \A r \in Reqs :
    /\ Len(observed[r]) <= 1
    /\ (Answered(r) /\ PassesValidation(r)) => Len(observed[r]) = 1

\* C3 witness: all requests passed validation and are answered, one after
\* a predict that raised and one after a predict that returned.
C3_Witness ==
  /\ \A r \in Reqs : PassesValidation(r) /\ Answered(r) /\ Len(observed[r]) = 1
  /\ \E r \in Reqs : result[r].kind = "raise"
  /\ \E r \in Reqs : result[r].kind = "return"

\* C4: a request that finds the lock taken is queued, not answered with an
\* error: from the queue it can only go on into predict, and it does get
\* there and is answered after exactly one predict call of its own.
C4_QueuedIsServed ==
  /\ [][\A r \in Reqs :
          pc[r] = "waiting" => pc'[r] \in {"waiting", "predicting"}]_vars
  /\ \A r \in Reqs : (pc[r] = "waiting") ~> (pc[r] = "predicting")
  /\ \A r \in Reqs :
       (pc[r] = "waiting") ~> (pc[r] = "responded" /\ Len(observed[r]) = 1)

\* C4 witness: a request that had to queue has been answered from the
\* predictions of its own call.
C4_Witness ==
  \E r \in Reqs :
    /\ waited[r]
    /\ pc[r] = "responded"
    /\ resp[r].status = 200
    /\ result[r].kind = "return"

\* The requests whose predict call raised and that have been answered.
InferenceFailed(r) == Answered(r) /\ result[r].kind = "raise"

NoPredictions(response) == "predictions" \notin DOMAIN response.body

\* C5 as stated: when predict raises, what leaves the gateway is an
\* InferenceError whose cause is the original exception, after one call and
\* with no predictions.
C5_SurfacesInferenceError ==
  \A r \in Reqs :
    InferenceFailed(r) =>
      /\ gw[r].kind = "raise"
      /\ gw[r].exc.type = "InferenceError"
      /\ gw[r].exc.cause = result[r].exc
      /\ Len(observed[r]) = 1
      /\ NoPredictions(resp[r])

\* C5 amended: when predict raises, what leaves the gateway is the original
\* exception itself, unwrapped; the resource was called once for the
\* request and the response holds no predictions.
C5_SurfacesOriginalError ==
  \A r \in Reqs :
    InferenceFailed(r) =>
      /\ gw[r] = [kind |-> "raise", exc |-> result[r].exc]
      /\ gw[r].exc.type # "InferenceError"
      /\ Len(observed[r]) = 1
      /\ NoPredictions(resp[r])

\* C5 witness: a predict call raised and the request has been answered.
C5_Witness ==
  \E r \in Reqs :
    /\ InferenceFailed(r)
    /\ result[r].exc \in ResourceErrors
    /\ gw[r].kind = "raise"

\* C6: when predict raises during a request, the response is a 5xx without
\* predictions, and the client call, blocking or not, ends in an HTTPError
\* carrying that status instead of a typed response.
C6_FailureIsServerError ==
  \A r \in Reqs :
    InferenceFailed(r) =>
      /\ resp[r].status >= 500 /\ resp[r].status <= 599
      /\ NoPredictions(resp[r])
      /\ httpx_request_wrapper(resp[r], call[r].response_model).kind = "HTTPError"
      /\ httpx_request_wrapper_async(resp[r], call[r].response_model).kind
           = "HTTPError"
      /\ pc[r] = "closed" =>
           /\ out[r].kind = "HTTPError"
           /\ out[r].status = resp[r].status

\* C6 witness: a blocking and a non-blocking call, one to each route, have
\* both ended after predict raised for them.
C6_Witness ==
  \E r1, r2 \in Reqs :
    /\ pc[r1] = "closed" /\ pc[r2] = "closed"
    /\ result[r1].kind = "raise" /\ result[r2].kind = "raise"
    /\ call[r1].variant = "sync" /\ call[r2].variant = "async"
    /\ Handler(r1) = "run_token_detection"
    /\ Handler(r2) = "run_span_detection"
    /\ out[r1].kind = "HTTPError" /\ out[r2].kind = "HTTPError"

\* The requests that reach a route with a body that is no DetectionRequest.
FailsValidation(r) ==
  /\ call[r] # NoCall
  /\ Handler(r) # "none"
  /\ "question" \notin DOMAIN call[r].json

\* C7: a request whose body fails validation never queues for the lock,
\* never enters predict, and is answered with a 4xx.
C7_InvalidNeverReachesGateway ==
  \A r \in Reqs :
    FailsValidation(r) =>
      /\ pc[r] \in {"sent", "responded", "closed"}
      /\ observed[r] = <<>>
      /\ result[r] = NoResult
      /\ ~waited[r]
      /\ \A i \in DOMAIN waiters : waiters[i] # r
      /\ Answered(r) => (resp[r].status >= 400 /\ resp[r].status <= 499)

\* C7 witness: a request without `question` has been answered while the
\* resource was busy with another request.
C7_Witness ==
  \E r1, r2 \in Reqs :
    /\ FailsValidation(r1)
    /\ pc[r1] = "responded"
    /\ resp[r1].status = 422
    /\ pc[r2] = "predicting"

\* The calls made through LettuceClient / LettuceClientAsync methods.
ViaClient(r) == call[r] # NoCall /\ call[r].via \in {"detect_token", "detect_spans"}

\* C8 as stated: the path a client method posts to is a path the server
\* serves, and the call returns the typed response of its operation
\* whenever the model emitted well-formed predictions.
C8_ClientReachesServer ==
  \A r \in Reqs :
    (ViaClient(r) /\ pc[r] = "closed") =>
      /\ Handler(r) # "none"
      /\ \/ /\ out[r].kind = "ok"
            /\ out[r].type = call[r].response_model
         \/ resp[r].status >= 500

\* C9: a successful token response has one item per raw item, in the raw
\* order, each {token: raw.token, hallucination_score: raw.prob}, and the
\* resource was called with output_format "tokens".
C9_TokenMapping ==
  \A r \in Reqs :
    (Answered(r) /\ PassesValidation(r) /\ Handler(r) = "run_token_detection"
     /\ resp[r].status = 200) =>
      /\ result[r].kind = "return"
      /\ Len(resp[r].body.predictions) = Len(result[r].value)
      /\ \A i \in 1..Len(result[r].value) :
           resp[r].body.predictions[i] =
             [token |-> result[r].value[i].token,
              hallucination_score |-> result[r].value[i].prob]
      /\ observed[r] # <<>>
      /\ \A i \in DOMAIN observed[r] : observed[r][i].output_format = "tokens"

\* C9 witness: a token request got a success response with two items.
C9_Witness ==
  \E r \in Reqs :
    /\ Answered(r)
    /\ PassesValidation(r)
    /\ Handler(r) = "run_token_detection"
    /\ resp[r].status = 200
    /\ Len(resp[r].body.predictions) = 2
    /\ resp[r].body.predictions[1] # resp[r].body.predictions[2]

\* C10: a successful span response has one item per raw item, in the raw
\* order, each {start, end, text} of the raw item with hallucination_score
\* its confidence, and the resource was called with output_format "spans".
C10_SpanMapping ==
  \A r \in Reqs :
    (Answered(r) /\ PassesValidation(r) /\ Handler(r) = "run_span_detection"
     /\ resp[r].status = 200) =>
      /\ result[r].kind = "return"
      /\ Len(resp[r].body.predictions) = Len(result[r].value)
      /\ \A i \in 1..Len(result[r].value) :
           resp[r].body.predictions[i] =
             [start |-> result[r].value[i].start,
              end |-> result[r].value[i].end,
              text |-> result[r].value[i].text,
              hallucination_score |-> result[r].value[i].confidence]
      /\ observed[r] # <<>>
      /\ \A i \in DOMAIN observed[r] : observed[r][i].output_format = "spans"

\* C10 witness: a span request got a success response with two items.
C10_Witness ==
  \E r \in Reqs :
    /\ Answered(r)
    /\ PassesValidation(r)
    /\ Handler(r) = "run_span_detection"
    /\ resp[r].status = 200
    /\ Len(resp[r].body.predictions) = 2
    /\ resp[r].body.predictions[1] # resp[r].body.predictions[2]


\* answer[start:end] for 0 <= start <= end <= len(answer).
Slice(answer, start, end) == SubSeq(answer, start + 1, end)

C12_NonSuccessRaises ==
  \A r \in Reqs :
    /\ nsent[r] <= 1
    /\ (pc[r] = "closed" /\ (resp[r].status < 200 \/ resp[r].status > 299)) =>
         /\ out[r].kind = "HTTPError"
         /\ out[r].status = resp[r].status
         /\ out[r].body = resp[r].body
         /\ "value" \notin DOMAIN out[r]
         /\ nsent[r] = 1

\* C12 witness: the blocking detect_token ended on a 500 and the
\* non-blocking detect_spans on a 404, both in an HTTPError.
C12_Witness ==
  \E r1, r2 \in Reqs :
    /\ pc[r1] = "closed" /\ pc[r2] = "closed"
    /\ call[r1].variant = "sync" /\ call[r1].via = "detect_token"
    /\ call[r2].variant = "async" /\ call[r2].via = "detect_spans"
    /\ resp[r1].status = 500 /\ resp[r2].status = 404
    /\ out[r1].kind = "HTTPError" /\ out[r2].kind = "HTTPError"


\* The fields each item of a response must have, written out per model.
RequiredOf(r) ==
  IF call[r].response_model = "TokenDetectionResponse"
  THEN {"token", "hallucination_score"}
  ELSE {"start", "end", "text", "hallucination_score"}

\* The 2xx body that call r received is not a response of its model.
MalformedBody(r) ==
  \/ "predictions" \notin DOMAIN resp[r].body
  \/ \E i \in DOMAIN resp[r].body.predictions :
       RequiredOf(r) \ DOMAIN resp[r].body.predictions[i] # {}

\* C13: a 2xx reply whose body fails validation against the expected
\* response model ends the call in a ValidationError, and a call that did
\* return a response returned one whose every item has all its fields.
C13_InvalidBodyRaises ==
  \A r \in Reqs :
    (pc[r] = "closed" /\ resp[r].status >= 200 /\ resp[r].status <= 299) =>
      /\ MalformedBody(r) => out[r] = [kind |-> "ValidationError"]
      /\ out[r].kind = "ok" =>
           /\ DOMAIN out[r].value = {"predictions"}
           /\ \A i \in DOMAIN out[r].value.predictions :
                DOMAIN out[r].value.predictions[i] = RequiredOf(r)

\* C13 witness: the blocking client got a 200 with an item lacking its
\* score, the non-blocking one a 200 without predictions; both raised
\* ValidationError.
C13_Witness ==
  \E r1, r2 \in Reqs :
    /\ pc[r1] = "closed" /\ pc[r2] = "closed"
    /\ call[r1].variant = "sync" /\ call[r2].variant = "async"
    /\ resp[r1] = [status |-> 200, body |-> [predictions |-> <<[token |-> <<"x">>]>>]]
    /\ call[r1].response_model = "TokenDetectionResponse"
    /\ resp[r2] = [status |-> 200, body |-> [detail |-> "ok"]]
    /\ out[r1].kind = "ValidationError" /\ out[r2].kind = "ValidationError"


\* C14: for the same arguments the blocking and the non-blocking client
\* send the same request to the same endpoint and expect the same response
\* model, and given the same server reply they end in the same outcome.
C14_VariantsAgree ==
  \A r1, r2 \in Reqs :
    (/\ pc[r1] # "idle" /\ pc[r2] # "idle"
     /\ call[r1].variant = "sync" /\ call[r2].variant = "async"
     /\ call[r1].via = call[r2].via
     /\ call[r1].json.contexts = call[r2].json.contexts
     /\ call[r1].json.question = call[r2].json.question
     /\ call[r1].json.answer = call[r2].json.answer) =>
      /\ call[r1].url = call[r2].url
      /\ call[r1].json = call[r2].json
      /\ call[r1].response_model = call[r2].response_model
      /\ nsent[r1] = 1 /\ nsent[r2] = 1
      /\ (pc[r1] = "closed" /\ pc[r2] = "closed" /\ resp[r1] = resp[r2]) =>
           out[r1] = out[r2]

\* C14 witness: both variants made the same detect_spans call; they have
\* agreed on an error reply.
C14_Witness ==
  \E r1, r2 \in Reqs :
    /\ pc[r1] = "closed" /\ pc[r2] = "closed"
    /\ call[r1].variant = "sync" /\ call[r2].variant = "async"
    /\ call[r1].via = "detect_spans" /\ call[r2].via = "detect_spans"
    /\ call[r1].json = call[r2].json
    /\ resp[r1] = ServerErrorResponse /\ resp[r2] = ServerErrorResponse
    /\ out[r1] = out[r2] /\ out[r1].kind = "HTTPError"


C16_ConstructedOnceAtStartup ==
  /\ [](phase = "serving" <=> detector = "HallucinationDetector")
  /\ [](\A r \in Reqs :
          (pc[r] \notin {"idle", "sent"} \/ observed[r] # <<>>) =>
            detector = "HallucinationDetector")
  /\ [][detector' # detector =>
          /\ detector = "None" /\ phase = "boot" /\ phase' = "serving"
          /\ \A r \in Reqs : pc[r] = "idle" /\ observed[r] = <<>>]_vars
  /\ [][detector # "None" => detector' = detector]_vars

\* C16 witness: with the detector constructed, one request is inside
\* predict while another has already been answered after its own call.
C16_Witness ==
  /\ detector = "HallucinationDetector"
  /\ \E r1, r2 \in Reqs :
       /\ pc[r1] = "predicting" /\ Len(observed[r1]) = 1
       /\ pc[r2] = "closed" /\ Len(observed[r2]) = 1


\* C17: while a request holds the lock and its predict call is running, a
\* request that has arrived can be taken by the server; taking it validates
\* it and leaves it answered with an error or queued for the lock, never
\* past the lock, and the running call is not disturbed.
C17_AcceptsWhileInferring ==
  /\ [](\A q, r \in Reqs :
          (pc[q] = "predicting" /\ pc[r] = "sent") => ENABLED Handle(r))
  /\ [][\A q, r \in Reqs :
          (pc[q] = "predicting" /\ pc[r] = "sent" /\ pc'[r] # "sent") =>
            /\ pc'[q] = "predicting" /\ locked' /\ det_work' = det_work
            /\ IF Route(call[r].url.path) # "none"
                  /\ ParseDetectionRequest(call[r].json).ok
               THEN /\ pc'[r] = "waiting"
                    /\ waiters' = Append(waiters, r)
                    /\ observed'[r] = <<>>
               ELSE /\ pc'[r] = "responded"
                    /\ resp'[r].status \in {404, 422}]_vars

\* C17 witness: while one request is inside predict, a valid request that
\* arrived after it stands queued and has not reached predict.
C17_Witness ==
  \E q, r \in Reqs :
    /\ pc[q] = "predicting" /\ locked
    /\ pc[r] = "waiting" /\ waiters = <<r>> /\ observed[r] = <<>>
    /\ PassesValidation(r)


\* C18: a request whose caller went away while it was queued for the lock
\* keeps its place: it leaves the queue only by being woken and taking the
\* lock, predict is then called for it, and it ends with exactly one call
\* made for it.
C18_DisconnectedKeepsTurn ==
  /\ [](\A r \in Reqs :
          (r \in gone /\ pc[r] = "waiting") =>
            \E i \in DOMAIN waiters : waiters[i] = r)
  /\ [][\A r \in Reqs :
          (r \in gone' /\ pc[r] = "waiting" /\ pc'[r] # "waiting") =>
            /\ r \in woken
            /\ pc'[r] = "predicting" /\ locked'
            /\ Len(observed'[r]) = 1]_vars
  /\ \A r \in Reqs :
       (r \in gone /\ pc[r] = "waiting") ~>
         (pc[r] = "responded" /\ Len(observed[r]) = 1)

\* C18 witness: the caller left while its request was queued, and the
\* request has since held the lock and had its one predict call.
C18_Witness ==
  \E r \in Reqs :
    /\ out[r] = [kind |-> "Disconnected", at |-> "waiting"]
    /\ r \in gone /\ waited[r]
    /\ pc[r] = "responded" /\ Len(observed[r]) = 1
    /\ result[r].kind = "return"

\* C19: the lock is released only by the request whose predict call has
\* ended, in the step that answers it, also when its caller went away
\* during the call; whenever the lock is free no predict call is running.
C19_ReleaseAfterCallEnds ==
  /\ [](~locked => (det_work = Idle /\ \A r \in Reqs : pc[r] # "predicting"))
  /\ [][(locked /\ ~locked') =>
          \E r \in Reqs :
            /\ pc[r] = "thread_done" /\ pc'[r] = "responded"
            /\ result[r].kind \in {"return", "raise"}]_vars
  /\ [](\A r \in Reqs : (r \in gone /\ pc[r] = "predicting") => locked)

\* C19 witness: the caller of the lock's holder left during predict; the
\* call ran to its end, and the request that queued behind it is now inside
\* predict.
C19_Witness ==
  \E r, q \in Reqs :
    /\ out[r] = [kind |-> "Disconnected", at |-> "predicting"]
    /\ pc[r] = "responded"
    /\ waited[q] /\ pc[q] = "predicting" /\ locked


\* C20: when predict raises, the request's way out releases the lock and
\* wakes the first waiter; the lock is never left held with no request
\* inside it; and once a request has failed, every request that is queued
\* or has arrived is answered, a valid one after its own predict call.
C20_FailureReleasesLock ==
  /\ [][\A r \in Reqs :
          (pc[r] = "thread_done" /\ result[r].kind = "raise"
           /\ pc'[r] = "responded") =>
            /\ ~locked'
            /\ waiters # <<>> => Head(waiters) \in woken']_vars
  /\ [](locked => \E r \in Reqs : pc[r] \in {"predicting", "thread_done"})
  /\ \A q, r \in Reqs :
       (/\ pc[q] \in {"responded", "closed"} /\ result[q].kind = "raise"
        /\ pc[r] \in {"sent", "waiting"}) ~>
         (/\ pc[r] \in {"responded", "closed"}
          /\ PassesValidation(r) => Len(observed[r]) = 1)

\* C20 witness: one request's predict call raised while another was
\* queued; the queued one has since been served with its predictions.
C20_Witness ==
  \E q, r \in Reqs :
    /\ q # r
    /\ result[q].kind = "raise" /\ pc[q] = "closed" /\ resp[q].status = 500
    /\ waited[r] /\ result[r].kind = "return"
    /\ pc[r] = "closed" /\ resp[r].status = 200
    /\ Len(resp[r].body.predictions) = 2

====
